---- MODULE Spec2Model ----
(***************************************************************************)
(* Model of tablestore/api.go: the retrying transport doRequest and the    *)
(* twelve public operations of TableStoreClient that call it.              *)
(*                                                                         *)
(* A caller (goroutine) invokes one public operation.  The operation first *)
(* runs its own code up to the doRequest call (validation, request         *)
(* building), doRequest then loops over attempts (label retry), and after  *)
(* doRequest returns the operation maps the result to (response, error).   *)
(* The only blocking point is postReq, so a call is cut into three steps:  *)
(*   Call  - operation entry up to label retry                             *)
(*   Send  - lines 84..116, one attempt is built and issued                *)
(*   Recv  - postReq returns; lines 117..156 and the rest of the operation *)
(***************************************************************************)
EXTENDS Integers, Sequences, FiniteSets, TLC

\* ------------------------------------------------------------------ bounds
MaxRetryTimes == 2
NumCalls == 2
MaxKeyColumns == 2

\* --------------------------------------------------------- program constants
\* The limits CreateTable compares against.  They are declared in another
\* file of the package; the properties below hold for any positive values.
maxTableNameLength == 100
maxPrimaryKeyNum == 10

Callers == 1..NumCalls

Operations ==
    {"CreateTable", "ListTable", "DeleteTable", "DescribeTable", "UpdateTable",
     "PutRow", "DeleteRow", "GetRow", "UpdateRow", "BatchGetRow",
     "BatchWriteRow", "GetRange"}

\* Operations whose response carries row-codec buffers.
RowOperations == {"GetRow", "BatchGetRow", "GetRange"}

\* The concurrent workload: the operations its callers invoke and the retry
\* budgets the client is configured with.
ConcurrentOperations == {"PutRow"}
ConcurrentRetryTimes == {0, 1}

Uri ==
    [CreateTable |-> "/CreateTable", ListTable |-> "/ListTable",
     DeleteTable |-> "/DeleteTable", DescribeTable |-> "/DescribeTable",
     UpdateTable |-> "/UpdateTable", PutRow |-> "/PutRow",
     DeleteRow |-> "/DeleteRow", GetRow |-> "/GetRow",
     UpdateRow |-> "/UpdateRow", BatchGetRow |-> "/BatchGetRow",
     BatchWriteRow |-> "/BatchWriteRow", GetRange |-> "/GetRange"]

\* ------------------------------------------------------------------ values
\* A byte buffer, by what it decodes to:
\*   enc = "empty"    zero bytes
\*   enc = "request"  a marshalled request message for uri `code`
\*   enc = "error"    a marshalled tsprotocol.Error with Code = `code`
\*   enc = "message"  a marshalled response message; `row` tells what its
\*                    embedded row buffer holds: "none", "bad" or "ok"
\*   enc = "garbage"  bytes that decode as no message at all
\* `next` is the next-start primary key buffer of a GetRange response
\* message: absent (NoNext), bytes the row codec rejects (bad), or the
\* encoded row whose primary-key cells are `cells`.
NextKey(bad, cells) == [bad |-> bad, cells |-> cells]
NoNext == NextKey(FALSE, <<>>)
BufNext(enc, code, row, next) == [enc |-> enc, code |-> code, row |-> row, next |-> next]
Buf(enc, code, row) == BufNext(enc, code, row, NoNext)

\* The primary-key cells of a row of k key columns, as the row codec reads
\* them: cell i has its own name and value.
Cells(k) == [i \in 1..k |-> [cellName |-> i, cellValue |-> [Value |-> 100 + i]]]

\* A response message as the operation sees it: "nil" (no message passed),
\* "untouched" (as allocated), or decoded, with what its row buffer holds.
Resp(msg, next) == [msg |-> msg, next |-> next]

\* A *PrimaryKey: nil, or the PrimaryKeys it holds.
Key(isNil, cols) == [isNil |-> isNil, PrimaryKeys |-> cols]
NilKey == Key(TRUE, <<>>)
EmptyBody == Buf("empty", "", "none")

\* An error value; NoErr is Go's nil error.
Err(kind, code) == [kind |-> kind, code |-> code]
NoErr == Err("nil", "")

\* What an operation hands back: result is "nil" (nil pointer), "value" (a
\* non-nil response), or "panic" when the operation aborts with a runtime
\* panic instead of returning.
Ret(result, error) == [result |-> result, error |-> error]
NoRet == Ret("pending", NoErr)

\* Arguments of an operation.
Arg(kind, nameLen, nkeys, maxVersion) ==
    [kind |-> kind, nameLen |-> nameLen, nkeys |-> nkeys, maxVersion |-> maxVersion]

Inputs(o) ==
    CASE o = "CreateTable" ->
           { Arg("valid", l, k, 0) :
               l \in {1, maxTableNameLength, maxTableNameLength + 1},
               k \in {0, 1, maxPrimaryKeyNum, maxPrimaryKeyNum + 1} }
      [] o = "PutRow" ->
           { Arg(kd, 0, 0, 0) : kd \in {"nilRequest", "nilChange", "valid"} }
      [] o = "GetRow" ->
           { Arg("valid", 0, 0, v) : v \in {0, 1} }
      [] OTHER -> { Arg("valid", 0, 0, 0) }

VARIABLES
    plan,        \* plan[c]: the operations caller c may invoke ({}: not running)
    retryTimes,  \* tableStoreClient.config.RetryTimes
    pc,          \* pc[c]: "idle", "retry", "sent", "done", "panic"
    op,          \* op[c]: the operation caller c is in, "" before the call
    arg,         \* arg[c]: its arguments
    count,       \* doRequest's local count
    body,        \* doRequest's local body
    sent,        \* history: the attempts issued by the call, in order
    hist,        \* history: the outcomes postReq returned, in order
    derr,        \* the error doRequest returned
    ret,         \* what the operation returned
    resp,        \* the response message resp passed to doRequest
    nextStart    \* NextStartPrimaryKey of the GetRangeResponse returned

vars == <<plan, retryTimes, pc, op, arg, count, body, sent, hist, derr, ret,
          resp, nextStart>>


\* ------------------------------------------------ doRequest, lines 66..157
\* proto.Marshal(req), or nil when the operation has no request message.
Marshal(req) == IF req = "nil" THEN EmptyBody ELSE Buf("request", req, "none")

\* base64(md5(body)): determined by the bytes, and distinct bytes give
\* distinct sums.
MD5(b) == [md5of |-> b]

\* otshead.signature(uri, "POST", accessKeySecret) over the signed headers;
\* the credentials, instance name and API version never change.
Signature(uri, md5) == [method |-> "POST", path |-> uri, contentMd5 |-> md5]

\* One attempt as it leaves the client.
NewAttempt(uri, b) ==
    [uri |-> uri, body |-> b, md5 |-> MD5(b), sign |-> Signature(uri, MD5(b))]

\* proto.Unmarshal(body, e) into a tsprotocol.Error.
UnmarshalError(b) ==
    IF b.enc = "error" THEN [ok |-> TRUE, code |-> b.code]
                       ELSE [ok |-> FALSE, code |-> ""]

\* proto.Unmarshal(body, resp) into the operation's response message.
UnmarshalResp(b) ==
    IF b.enc = "message" THEN [ok |-> TRUE, msg |-> b.row, next |-> b.next]
                         ELSE [ok |-> FALSE, msg |-> "untouched", next |-> NoNext]

\* Variant: every decoded code is taken for a transient one.
IsTransientCodeAny(code) == TRUE

IsTransientCode(code) == code \in {"OTSServerBusy", "OTSTimeout"}

\* Variant: the comparison is strict, one retry fewer.
MayRetryUndecodableStrict(cnt) == cnt < retryTimes

MayRetryUndecodable(cnt) == cnt <= retryTimes

\* Variant: the comparison is strict, one retry fewer.
MayRetryTransientStrict(cnt) == cnt < retryTimes

\* Variant: the limit is one too high, one retry more.
MayRetryTransientExtra(cnt) == cnt <= retryTimes + 1

MayRetryTransient(cnt) == cnt <= retryTimes

Pending == Err("pending", "")

\* Variant: count is one variable of the client, shared by all calls.
countOfClient(c) == 1

\* The count variable a call works on: a local of doRequest, one per call.
countOf(c) == c

\* What postReq can return for a request to operation o: (body, err).  A
\* failure has err # nil and either no body (transport level), a marshalled
\* Error, or bytes that are no Error; a success has err = nil.
ErrorCodes == {"OTSServerBusy", "OTSTimeout", "OTSParameterInvalid"}

Outcomes(o) ==
    { [failed |-> TRUE, body |-> b] :
        b \in {EmptyBody, Buf("garbage", "", "none")}
              \cup { Buf("error", c, "none") : c \in ErrorCodes } }
    \cup
    { [failed |-> FALSE, body |-> b] :
        b \in {EmptyBody, Buf("garbage", "", "none")}
              \cup { Buf("message", Uri[o], r) :
                       r \in IF o \in RowOperations THEN {"none", "bad", "ok"}
                                                     ELSE {"none"} }
              \cup { BufNext("message", Uri[o], r, n) :
                       r \in IF o = "GetRange" THEN {"none", "ok"} ELSE {},
                       n \in {NextKey(TRUE, <<>>)}
                             \cup { NextKey(FALSE, Cells(k)) : k \in 1..MaxKeyColumns } } }

\* Variant: a failure without a body is retried like a transient code.
onFailureRetryTransport(o, cnt) ==
    IF o.body.enc # "empty"
    THEN LET e == UnmarshalError(o.body) IN
         IF ~e.ok
         THEN IF MayRetryUndecodable(cnt + 1)
              THEN [goto |-> TRUE, count |-> cnt + 1, err |-> Pending]
              ELSE [goto |-> FALSE, count |-> cnt + 1, err |-> Err("decode", "")]
         ELSE IF IsTransientCode(e.code)
              THEN IF MayRetryTransient(cnt + 1)
                   THEN [goto |-> TRUE, count |-> cnt + 1, err |-> Pending]
                   ELSE [goto |-> FALSE, count |-> cnt + 1, err |-> Err("code", e.code)]
              ELSE [goto |-> FALSE, count |-> cnt, err |-> Err("code", e.code)]
    ELSE IF MayRetryTransient(cnt + 1)
         THEN [goto |-> TRUE, count |-> cnt + 1, err |-> Pending]
         ELSE [goto |-> FALSE, count |-> cnt + 1, err |-> Err("transport", "")]

\* The branch err != nil after postReq.  Yields whether control goes back to
\* label retry, the new count, and the error returned otherwise.
onFailure(o, cnt) ==
    IF o.body.enc # "empty"
    THEN LET e == UnmarshalError(o.body) IN
         IF ~e.ok
         THEN IF MayRetryUndecodable(cnt + 1)
              THEN [goto |-> TRUE, count |-> cnt + 1, err |-> Pending]
              ELSE [goto |-> FALSE, count |-> cnt + 1, err |-> Err("decode", "")]
         ELSE IF IsTransientCode(e.code)
              THEN IF MayRetryTransient(cnt + 1)
                   THEN [goto |-> TRUE, count |-> cnt + 1, err |-> Pending]
                   ELSE [goto |-> FALSE, count |-> cnt + 1, err |-> Err("code", e.code)]
              ELSE [goto |-> FALSE, count |-> cnt, err |-> Err("code", e.code)]
    ELSE [goto |-> FALSE, count |-> cnt, err |-> Err("transport", "")]

\* The branch err == nil after postReq.  respNil: the operation passed a nil
\* resp; proto.Unmarshal then calls Reset on a nil interface and panics.
onSuccess(o, respNil) ==
    IF o.body.enc = "empty"
    THEN [panic |-> FALSE, err |-> NoErr, msg |-> "untouched", next |-> NoNext]
    ELSE IF respNil
         THEN [panic |-> TRUE, err |-> Pending, msg |-> "untouched", next |-> NoNext]
         ELSE LET u == UnmarshalResp(o.body) IN
              IF u.ok THEN [panic |-> FALSE, err |-> NoErr, msg |-> u.msg,
                            next |-> u.next]
                      ELSE [panic |-> FALSE, err |-> Err("respdecode", ""),
                            msg |-> "untouched", next |-> NoNext]

\* ------------------------------------------------------ public operations
\* The part of an operation before its doRequest call either returns at once
\* (Stop) or calls doRequest with a request message and a response (Go).
Go(req, respNil) == [call |-> TRUE, req |-> req, respNil |-> respNil, ret |-> NoRet]
Stop(r) == [call |-> FALSE, req |-> "nil", respNil |-> FALSE, ret |-> r]

Panic == Ret("panic", NoErr)

\* Variant: the limit is off by one, a name one byte too long passes.
TableNameTooLongOffByOne(len) == len > maxTableNameLength + 1

TableNameTooLong(len) == len > maxTableNameLength

PrimaryKeyTooMuch(n) == n > maxPrimaryKeyNum

CreateTableBefore(a) ==
    IF TableNameTooLong(a.nameLen)
    THEN Stop(Ret("nil", Err("validation", "errTableNameTooLong")))
    ELSE IF PrimaryKeyTooMuch(a.nkeys)
    THEN Stop(Ret("nil", Err("validation", "errPrimaryKeyTooMuch")))
    ELSE IF a.nkeys = 0
    THEN Stop(Ret("nil", Err("validation", "errCreateTableNoPrimaryKey")))
    ELSE Go(Uri.CreateTable, FALSE)

CreateTableAfter(err, msg) ==
    IF err # NoErr THEN Ret("nil", err) ELSE Ret("value", NoErr)

ListTableBefore(a) == Go("nil", FALSE)

ListTableAfter(err, msg) ==
    IF err # NoErr THEN Ret("value", NoErr) ELSE Ret("value", NoErr)

DeleteTableBefore(a) == Go(Uri.DeleteTable, TRUE)

DeleteTableAfter(err, msg) ==
    IF err # NoErr THEN Ret("nil", err) ELSE Ret("value", NoErr)

DescribeTableBefore(a) == Go(Uri.DescribeTable, FALSE)

\* resp.ReservedThroughputDetails is nil in an untouched resp.
DescribeTableAfter(err, msg) ==
    IF err # NoErr THEN Ret("value", err)
    ELSE IF msg = "untouched" THEN Panic
    ELSE Ret("value", NoErr)

UpdateTableBefore(a) == Go(Uri.UpdateTable, FALSE)

UpdateTableAfter(err, msg) ==
    IF err # NoErr THEN Ret("value", err)
    ELSE IF msg = "untouched" THEN Panic
    ELSE Ret("value", NoErr)

PutRowBefore(a) ==
    IF a.kind = "nilRequest" THEN Stop(Ret("nil", NoErr))
    ELSE IF a.kind = "nilChange" THEN Stop(Ret("nil", NoErr))
    ELSE Go(Uri.PutRow, FALSE)

\* resp.Consumed is nil in an untouched resp.
PutRowAfter(err, msg) ==
    IF err # NoErr THEN Ret("nil", err)
    ELSE IF msg = "untouched" THEN Panic
    ELSE Ret("value", NoErr)

DeleteRowBefore(a) == Go(Uri.DeleteRow, FALSE)

DeleteRowAfter(err, msg) ==
    IF err # NoErr THEN Ret("nil", err)
    ELSE IF msg = "untouched" THEN Panic
    ELSE Ret("value", NoErr)

\* req is new, so req.TimeRange is nil when MaxVersion is 0.
GetRowBefore(a) ==
    IF a.maxVersion # 0 THEN Go(Uri.GetRow, FALSE)
    ELSE Stop(Ret("nil", Err("validation", "errInvalidInput")))

GetRowAfter(err, msg) ==
    IF err # NoErr THEN Ret("nil", err)
    ELSE IF msg \in {"untouched", "none"} THEN Ret("nil", NoErr)
    ELSE IF msg = "bad" THEN Ret("nil", Err("codec", ""))
    ELSE Ret("value", NoErr)

UpdateRowBefore(a) == Go(Uri.UpdateRow, FALSE)

UpdateRowAfter(err, msg) ==
    IF err # NoErr THEN Ret("nil", err)
    ELSE IF msg = "untouched" THEN Panic
    ELSE Ret("value", NoErr)

BatchGetRowBefore(a) == Go(Uri.BatchGetRow, FALSE)

\* msg "untouched" or "none": resp.Tables is empty.
BatchGetRowAfter(err, msg) ==
    IF err # NoErr THEN Ret("nil", err)
    ELSE IF msg = "bad" THEN Ret("nil", Err("codec", ""))
    ELSE Ret("value", NoErr)

BatchWriteRowBefore(a) == Go(Uri.BatchWriteRow, FALSE)

BatchWriteRowAfter(err, msg) ==
    IF err # NoErr THEN Ret("nil", err) ELSE Ret("value", NoErr)

GetRangeBefore(a) == Go(Uri.GetRange, FALSE)

\* next: resp.NextStartPrimaryKey, read only after the rows were decoded.
GetRangeAfter(err, msg, next) ==
    IF err # NoErr THEN Ret("nil", err)
    ELSE IF msg \in {"untouched", "none"} THEN Ret("nil", NoErr)
    ELSE IF msg = "bad" THEN Ret("nil", Err("codec", ""))
    ELSE IF next # NoNext /\ next.bad THEN Ret("nil", Err("codec", ""))
    ELSE Ret("value", NoErr)

\* PrimaryKeyColumn{ColumnName: string(pk.cellName), Value: pk.cellValue.Value}
PkColumn(cell) == [ColumnName |-> cell.cellName, Value |-> cell.cellValue.Value]

\* The loop over currentRows[0].primaryKey from cell i on, key being
\* response.NextStartPrimaryKey so far: each round assigns a new PrimaryKey
\* and appends the round's column to it.
RECURSIVE NextStartLoop(_, _, _)
NextStartLoop(cells, i, key) ==
    IF i > Len(cells) THEN key
    ELSE NextStartLoop(cells, i + 1,
                       Key(FALSE, Append(Key(FALSE, <<>>).PrimaryKeys, PkColumn(cells[i]))))

\* response.NextStartPrimaryKey as GetRange returns it in a response.
GetRangeNextStart(next) ==
    IF next # NoNext THEN NextStartLoop(next.cells, 1, NilKey) ELSE NilKey

Before(o, a) ==
    CASE o = "CreateTable"   -> CreateTableBefore(a)
      [] o = "ListTable"     -> ListTableBefore(a)
      [] o = "DeleteTable"   -> DeleteTableBefore(a)
      [] o = "DescribeTable" -> DescribeTableBefore(a)
      [] o = "UpdateTable"   -> UpdateTableBefore(a)
      [] o = "PutRow"        -> PutRowBefore(a)
      [] o = "DeleteRow"     -> DeleteRowBefore(a)
      [] o = "GetRow"        -> GetRowBefore(a)
      [] o = "UpdateRow"     -> UpdateRowBefore(a)
      [] o = "BatchGetRow"   -> BatchGetRowBefore(a)
      [] o = "BatchWriteRow" -> BatchWriteRowBefore(a)
      [] o = "GetRange"      -> GetRangeBefore(a)

After(o, err, msg, next) ==
    CASE o = "CreateTable"   -> CreateTableAfter(err, msg)
      [] o = "ListTable"     -> ListTableAfter(err, msg)
      [] o = "DeleteTable"   -> DeleteTableAfter(err, msg)
      [] o = "DescribeTable" -> DescribeTableAfter(err, msg)
      [] o = "UpdateTable"   -> UpdateTableAfter(err, msg)
      [] o = "PutRow"        -> PutRowAfter(err, msg)
      [] o = "DeleteRow"     -> DeleteRowAfter(err, msg)
      [] o = "GetRow"        -> GetRowAfter(err, msg)
      [] o = "UpdateRow"     -> UpdateRowAfter(err, msg)
      [] o = "BatchGetRow"   -> BatchGetRowAfter(err, msg)
      [] o = "BatchWriteRow" -> BatchWriteRowAfter(err, msg)
      [] o = "GetRange"      -> GetRangeAfter(err, msg, next)

\* ---------------------------------------------------------------- actions
NoArg == Arg("valid", 0, 0, 0)

Start(p, budgets) ==
    /\ plan = p
    /\ retryTimes \in budgets
    /\ pc = [c \in Callers |-> "idle"]
    /\ op = [c \in Callers |-> ""]
    /\ arg = [c \in Callers |-> NoArg]
    /\ count = [c \in Callers |-> 0]
    /\ body = [c \in Callers |-> EmptyBody]
    /\ sent = [c \in Callers |-> <<>>]
    /\ hist = [c \in Callers |-> <<>>]
    /\ derr = [c \in Callers |-> Pending]
    /\ ret = [c \in Callers |-> NoRet]
    /\ resp = [c \in Callers |-> Resp("nil", NoNext)]
    /\ nextStart = [c \in Callers |-> NilKey]

\* One caller, any operation.
Init == Start([c \in Callers |-> IF c = 1 THEN Operations ELSE {}], 0..MaxRetryTimes)

\* Every caller runs, on the concurrent workload.
InitConcurrent ==
    Start([c \in Callers |-> ConcurrentOperations], ConcurrentRetryTimes)

\* Caller c invokes operation o with arguments a: the operation's code up to
\* its doRequest call, and doRequest up to label retry (lines 67..80).
Call(c) ==
    /\ pc[c] = "idle"
    /\ \E o \in plan[c] : \E a \in Inputs(o) :
         LET b == Before(o, a) IN
         /\ op' = [op EXCEPT ![c] = o]
         /\ arg' = [arg EXCEPT ![c] = a]
         /\ pc' = [pc EXCEPT ![c] = IF b.call THEN "retry" ELSE "done"]
         /\ body' = [body EXCEPT ![c] = IF b.call THEN Marshal(b.req) ELSE @]
         /\ count' = IF b.call THEN [count EXCEPT ![countOf(c)] = 0] ELSE count
         /\ ret' = [ret EXCEPT ![c] = b.ret]
         /\ resp' = [resp EXCEPT ![c] =
                       IF b.call /\ ~b.respNil THEN Resp("untouched", NoNext) ELSE @]
    /\ UNCHANGED <<plan, retryTimes, sent, hist, derr, nextStart>>

\* Lines 84..116 and the send half of postReq: one attempt is built from the
\* current value of body and issued.
Send(c) ==
    /\ pc[c] = "retry"
    /\ sent' = [sent EXCEPT ![c] = Append(@, NewAttempt(Uri[op[c]], body[c]))]
    /\ pc' = [pc EXCEPT ![c] = "sent"]
    /\ UNCHANGED <<plan, retryTimes, op, arg, count, body, hist, derr, ret,
                   resp, nextStart>>

\* doRequest returns e with the response message msg, and the operation runs
\* to its own return.
Return(c, e, msg, next) ==
    LET r == After(op[c], e, msg, next) IN
    /\ derr' = [derr EXCEPT ![c] = e]
    /\ ret' = [ret EXCEPT ![c] = r]
    /\ pc' = [pc EXCEPT ![c] = IF r.result = "panic" THEN "panic" ELSE "done"]
    /\ resp' = [resp EXCEPT ![c] = IF msg = "untouched" THEN @ ELSE Resp(msg, next)]
    /\ nextStart' = [nextStart EXCEPT ![c] =
                       IF op[c] = "GetRange" /\ r.result = "value"
                       THEN GetRangeNextStart(next) ELSE @]

\* postReq returns (line 117): body is overwritten with the response bytes,
\* then lines 118..156 classify the outcome.
Recv(c) ==
    /\ pc[c] = "sent"
    /\ \E o \in Outcomes(op[c]) :
         /\ hist' = [hist EXCEPT ![c] = Append(@, o)]
         /\ body' = [body EXCEPT ![c] = o.body]
         /\ IF o.failed
            THEN LET r == onFailure(o, count[countOf(c)]) IN
                 /\ count' = [count EXCEPT ![countOf(c)] = r.count]
                 /\ IF r.goto
                    THEN /\ pc' = [pc EXCEPT ![c] = "retry"]
                         /\ UNCHANGED <<derr, ret, resp, nextStart>>
                    ELSE Return(c, r.err, "untouched", NoNext)
            ELSE LET s == onSuccess(o, Before(op[c], arg[c]).respNil) IN
                 /\ UNCHANGED count
                 /\ IF s.panic
                    THEN /\ pc' = [pc EXCEPT ![c] = "panic"]
                         /\ ret' = [ret EXCEPT ![c] = Panic]
                         /\ UNCHANGED <<derr, resp, nextStart>>
                    ELSE Return(c, s.err, s.msg, s.next)
    /\ UNCHANGED <<plan, retryTimes, op, arg, sent>>

Next == \E c \in Callers : Call(c) \/ Send(c) \/ Recv(c)

Spec == Init /\ [][Next]_vars

SpecConcurrent == InitConcurrent /\ [][Next]_vars

\* Each attempt returns, and a caller that is at label retry goes on.
Fairness == \A c \in Callers : WF_vars(Send(c)) /\ WF_vars(Recv(c))

FairSpec == Spec /\ Fairness


\* ------------------------------------------------------------- properties
\* The kinds of failure postReq can report, read off the outcome itself.
TransientFailure(o) ==
    o.failed /\ o.body.enc = "error" /\ o.body.code \in {"OTSServerBusy", "OTSTimeout"}
TerminalCodeFailure(o) ==
    o.failed /\ o.body.enc = "error" /\ o.body.code \notin {"OTSServerBusy", "OTSTimeout"}
UndecodableFailure(o) == o.failed /\ o.body.enc = "garbage"
TransportFailure(o) == o.failed /\ o.body.enc = "empty"
CountsAgainstBudget(o) == TransientFailure(o) \/ UndecodableFailure(o)

\* The number of outcomes among the first n of h that use up one retry.
Used(h, n) == Cardinality({ i \in 1..n : CountsAgainstBudget(h[i]) })

Ended(c) == pc[c] \in {"done", "panic"}
Running(c) == pc[c] \in {"retry", "sent"}

\* C1: when every attempt of a call fails with a transient code, the call is
\* still running after each of its first N attempts, and after attempt N+1
\* it has returned the error that carries the code of the last response; no
\* attempt N+2 is made.
C1_RetryBudgetExact ==
    \A c \in Callers :
      (hist[c] # <<>> /\ \A i \in 1..Len(hist[c]) : TransientFailure(hist[c][i]))
      => /\ Len(hist[c]) <= retryTimes + 1
         /\ Len(hist[c]) <= retryTimes => Running(c) /\ derr[c] = Pending
         /\ Len(hist[c]) = retryTimes + 1 =>
              /\ pc[c] = "done"
              /\ Len(sent[c]) = retryTimes + 1
              /\ derr[c] = Err("code", hist[c][Len(hist[c])].body.code)

C1_Witness ==
    \E c \in Callers :
      /\ retryTimes = MaxRetryTimes
      /\ Len(hist[c]) = retryTimes + 1
      /\ \A i \in 1..Len(hist[c]) : TransientFailure(hist[c][i])
      /\ hist[c][1].body.code # hist[c][Len(hist[c])].body.code
      /\ pc[c] = "done"

\* C2: a failure whose decoded code is not transient is the last outcome of
\* its call: no attempt follows it, whatever the budget and however many
\* retries came before, and the call has returned an error with that code.
C2_TerminalCodeNeverRetried ==
    \A c \in Callers : \A i \in 1..Len(hist[c]) :
      TerminalCodeFailure(hist[c][i])
      => /\ i = Len(hist[c])
         /\ Len(sent[c]) = i
         /\ pc[c] = "done"
         /\ derr[c] = Err("code", hist[c][i].body.code)

C2_Witness ==
    \E c \in Callers :
      /\ Len(hist[c]) = 2
      /\ retryTimes = MaxRetryTimes
      /\ TerminalCodeFailure(hist[c][2])
      /\ pc[c] = "done"

\* C3: a failure with a non-empty undecodable body uses one retry of the
\* budget it shares with the transient codes; while the retries used do not
\* exceed the budget the call goes on to another attempt, and when they do
\* the call returns a decode error.  It never ends the call without error.
C3_UndecodableCountsAsTransient ==
    \A c \in Callers :
      /\ count[c] = Used(hist[c], Len(hist[c]))
      /\ \A i \in 1..Len(hist[c]) :
           UndecodableFailure(hist[c][i])
           => IF Used(hist[c], i) <= retryTimes
              THEN \/ Len(sent[c]) > i
                   \/ pc[c] = "retry" /\ derr[c] = Pending
              ELSE /\ i = Len(hist[c])
                   /\ Len(sent[c]) = i
                   /\ pc[c] = "done"
                   /\ derr[c] = Err("decode", "")

C3_Witness ==
    \E c \in Callers :
      /\ retryTimes = MaxRetryTimes
      /\ Len(hist[c]) = retryTimes + 1
      /\ TransientFailure(hist[c][1])
      /\ UndecodableFailure(hist[c][2])
      /\ UndecodableFailure(hist[c][Len(hist[c])])
      /\ derr[c] = Err("decode", "")

\* C4: a failure without a body is the last outcome of its call: the call
\* returns the transport error at once, and count stays what the earlier
\* outcomes made it.
C4_TransportFailureNotRetried ==
    \A c \in Callers : \A i \in 1..Len(hist[c]) :
      TransportFailure(hist[c][i])
      => /\ i = Len(hist[c])
         /\ Len(sent[c]) = i
         /\ pc[c] = "done"
         /\ derr[c] = Err("transport", "")
         /\ count[c] = Used(hist[c], i - 1)

C4_Witness ==
    \E c \in Callers :
      /\ retryTimes = MaxRetryTimes
      /\ Len(hist[c]) = 2
      /\ TransportFailure(hist[c][2])
      /\ count[c] = 1
      /\ pc[c] = "done"


\* C5: a call makes at most N+1 attempts whatever its attempts return; a
\* call whose retries used exceed the budget has ended with an error; and,
\* every attempt returning, a call that has started comes to an end.
C5_RetriesCappedAndCallEnds ==
    /\ [](\A c \in Callers :
            /\ Len(sent[c]) <= retryTimes + 1
            /\ count[c] <= retryTimes + 1
            /\ count[c] > retryTimes =>
                 pc[c] = "done" /\ derr[c] \notin {Pending, NoErr})
    /\ \A c \in Callers : Running(c) ~> Ended(c)

C5_Witness ==
    \E c \in Callers :
      /\ retryTimes = MaxRetryTimes
      /\ count[c] = retryTimes + 1
      /\ Len(sent[c]) = retryTimes + 1
      /\ TransientFailure(hist[c][1])
      /\ UndecodableFailure(hist[c][2])
      /\ TransientFailure(hist[c][Len(hist[c])])
      /\ pc[c] = "done"

\* C6: whenever the doRequest call of an operation has returned an error,
\* the operation has returned a non-nil error.
C6_NoErrorSwallowed ==
    \A c \in Callers :
      derr[c] \notin {Pending, NoErr} => ret[c].error # NoErr

\* C7: an operation that has ended has returned either a non-nil result with
\* a nil error, or a nil result with a non-nil error.
C7_ResultXorError ==
    \A c \in Callers :
      Ended(c) => \/ ret[c].result = "value" /\ ret[c].error = NoErr
                  \/ ret[c].result = "nil" /\ ret[c].error # NoErr

\* C8: a CreateTable whose table name is longer than maxTableNameLength, or
\* whose schema has more than maxPrimaryKeyNum or no primary-key columns, has
\* returned a validation error and a nil response without entering
\* doRequest: no attempt was built or sent.
C8_CreateTableValidatesFirst ==
    \A c \in Callers :
      (/\ op[c] = "CreateTable"
       /\ \/ arg[c].nameLen > maxTableNameLength
          \/ arg[c].nkeys > maxPrimaryKeyNum
          \/ arg[c].nkeys = 0)
      => /\ pc[c] = "done"
         /\ ret[c].result = "nil"
         /\ ret[c].error.kind = "validation"
         /\ sent[c] = <<>>
         /\ hist[c] = <<>>
         /\ derr[c] = Pending

C8_Witness ==
    \E c \in Callers :
      /\ op[c] = "CreateTable"
      /\ arg[c].nameLen = maxTableNameLength + 1
      /\ arg[c].nkeys = 1
      /\ pc[c] = "done"
      /\ ret[c] = Ret("nil", Err("validation", "errTableNameTooLong"))

\* The error doRequest returns after outcome o ended the call.
Verdict(o) ==
    IF o.failed
    THEN CASE o.body.enc = "empty"   -> Err("transport", "")
           [] o.body.enc = "error"   -> Err("code", o.body.code)
           [] OTHER                  -> Err("decode", "")
    ELSE IF o.body.enc = "garbage" THEN Err("respdecode", "") ELSE NoErr

\* What caller c's call has of its own: everything but pc.
Own(c) ==
    <<op[c], arg[c], count[c], body[c], sent[c], hist[c], derr[c], ret[c],
      resp[c], nextStart[c]>>

\* C9: with calls running concurrently, each call's count is the number of
\* its own outcomes that use a retry, its attempts number its own outcomes
\* plus at most one in flight and never exceed N+1, it goes on exactly when
\* its own last outcome uses a retry within the budget, and what it returns
\* is decided by its own last outcome; and a step of one call changes
\* nothing of another call.
C9_CallsAreIndependent ==
    /\ [](\A c \in Callers :
            /\ count[c] = Used(hist[c], Len(hist[c]))
            /\ Len(sent[c]) = Len(hist[c]) + (IF pc[c] = "sent" THEN 1 ELSE 0)
            /\ Len(sent[c]) <= retryTimes + 1
            /\ hist[c] # <<>> =>
                 LET last == hist[c][Len(hist[c])] IN
                 IF CountsAgainstBudget(last) /\ Used(hist[c], Len(hist[c])) <= retryTimes
                 THEN Running(c) /\ derr[c] = Pending
                 ELSE Ended(c) /\ derr[c] = Verdict(last))
    /\ [][\A c \in Callers : pc'[c] = pc[c] => Own(c)' = Own(c)]_vars

C9_Witness ==
    \E c, d \in Callers :
      /\ c # d
      /\ retryTimes = 1
      /\ pc[c] = "sent" /\ count[c] = retryTimes
      /\ pc[d] = "sent" /\ count[d] = 0

\* The payload passed to caller c's doRequest call.
Payload(c) == Marshal(Before(op[c], arg[c]).req)

\* C10: every attempt of a call carries the marshalled request of the call as
\* its body, and the checksum of that payload as its content checksum.
C10_EveryAttemptSendsThePayload ==
    \A c \in Callers : \A i \in 1..Len(sent[c]) :
      /\ sent[c][i].body = Payload(c)
      /\ sent[c][i].md5 = MD5(Payload(c))


\* The response message as the operation allocated it before doRequest.
Allocated(c) ==
    IF Before(op[c], arg[c]).respNil THEN Resp("nil", NoNext)
                                     ELSE Resp("untouched", NoNext)

\* A row buffer of the decoded message that the row codec rejects.
RowCodecFailure(c, b) ==
    /\ b.enc = "message"
    /\ \/ op[c] \in RowOperations /\ b.row = "bad"
       \/ op[c] = "GetRange" /\ b.row = "ok" /\ b.next.bad

\* For caller c: an attempt that returned without error is the last of its
\* call; with an empty body doRequest returned nil and resp is as allocated;
\* with a non-empty body resp holds the decoded message and doRequest
\* returned nil, or the body did not decode and doRequest returned the decode
\* error; and a row-codec failure made the operation return that error.
SuccessIsFinal(c) ==
    \A i \in 1..Len(hist[c]) :
      ~hist[c][i].failed
      => LET b == hist[c][i].body IN
         /\ i = Len(hist[c])
         /\ Len(sent[c]) = i
         /\ ~Running(c)
         /\ b.enc = "empty" => derr[c] = NoErr /\ resp[c] = Allocated(c)
         /\ b.enc = "message" => derr[c] = NoErr /\ resp[c] = Resp(b.row, b.next)
         /\ b.enc = "garbage" =>
              /\ pc[c] = "done"
              /\ derr[c] = Err("respdecode", "")
              /\ resp[c] = Allocated(c)
         /\ RowCodecFailure(c, b) =>
              pc[c] = "done" /\ ret[c] = Ret("nil", Err("codec", ""))

\* C11: a successful attempt is final in every call: no attempt follows it,
\* an empty body gives success with resp untouched, a non-empty body is
\* decoded into resp, and a failure to decode it or a later row-codec failure
\* is returned as an error without a retry.
C11_SuccessIsFinal == \A c \in Callers : SuccessIsFinal(c)

\* C11, for the calls that pass a response message to doRequest (every
\* operation but DeleteTable): the same statement.
C11_SuccessIsFinalWithResponse ==
    \A c \in Callers :
      (op[c] # "" /\ ~Before(op[c], arg[c]).respNil) => SuccessIsFinal(c)

C11_WithResponseWitness ==
    \E c \in Callers :
      /\ op[c] = "GetRow"
      /\ Len(hist[c]) = 2
      /\ TransientFailure(hist[c][1])
      /\ ~hist[c][2].failed /\ hist[c][2].body.row = "bad"
      /\ ret[c] = Ret("nil", Err("codec", ""))


\* The key columns a decoded next-start row of cells `cells` stands for.
AllColumns(cells) ==
    [i \in 1..Len(cells) |->
       [ColumnName |-> cells[i].cellName, Value |-> cells[i].cellValue.Value]]

\* C12: in a response returned by GetRange, NextStartPrimaryKey holds every
\* primary-key column of the decoded next-start row, in order, with name and
\* value, when the server's response carries a next-start key of k >= 1
\* columns, and is nil when it carries none.
C12_NextStartPrimaryKeyComplete ==
    \A c \in Callers :
      (op[c] = "GetRange" /\ pc[c] = "done" /\ ret[c].result = "value")
      => LET next == hist[c][Len(hist[c])].body.next IN
         /\ next = NoNext => nextStart[c] = NilKey
         /\ next # NoNext =>
              /\ ~nextStart[c].isNil
              /\ nextStart[c].PrimaryKeys = AllColumns(next.cells)

====
